---- MODULE Spec2Model ----
(***************************************************************************)
(* FellowFlow payment reconciliation core: the checkout-session initiation *)
(* route (create-session), the Stripe webhook route, the pricing engine    *)
(* they both call, and the storage rows (registrations, payments) they     *)
(* share.  Each handler is cut at its storage / gateway operations so that *)
(* concurrent requests interleave exactly where the awaits of the code let *)
(* them interleave.                                                        *)
(***************************************************************************)
EXTENDS Integers, Sequences, FiniteSets, TLC

(* ------------------------------------------------------------------ *)
(*  Bounds                                                             *)
(* ------------------------------------------------------------------ *)
\* number of checkout sessions the gateway is asked to create
MaxSessions == 2
\* last instant of the clock (instants are half days: 2*d is midnight of day d)
MaxNow == 1

\* webhook deliveries and session-initiation requests that can be in progress at once
Handlers == {"w1", "w2"}
Callers == {"c1", "c2"}

\* registration ids; both rows were inserted by one group submission
Regs == {1, 2}
NoGroup == 0
NoSession == 0
NoPayment == 0
NoDate == -1
\* an id no registration row carries
UnknownReg == 3

(* ------------------------------------------------------------------ *)
(*  Pricing engine                                                     *)
(* ------------------------------------------------------------------ *)
\* parseISO of a date-only string: midnight at the start of that day
parseISO(d) == 2 * d

\* the event row: start date as (year, day in year), age thresholds
Event ==
  [start_year |-> 30, start_md |-> 5,
   adult_age_threshold |-> 18, youth_age_threshold |-> 13,
   infant_age_threshold |-> 3]

\* the stored registrant attributes of each registration row
Attrs(r) ==
  IF r = 1
  THEN [dob_year |-> 0, dob_md |-> 1, isFullDuration |-> TRUE,
        isStayingInMotel |-> FALSE, numDays |-> 0, group_id |-> 1]
  ELSE [dob_year |-> 5, dob_md |-> 9, isFullDuration |-> FALSE,
        isStayingInMotel |-> TRUE, numDays |-> 2, group_id |-> 1]

\* the pricing_config rows an administrator can store for the event
ConfigA ==
  [adult_full_price |-> 10, adult_daily_price |-> 3,
   youth_full_price |-> 6, youth_daily_price |-> 2,
   child_full_price |-> 4, child_daily_price |-> 1,
   motel_stay_free |-> FALSE,
   late_surcharge_tiers |-> << >>]

ConfigB ==
  [adult_full_price |-> 10, adult_daily_price |-> 3,
   youth_full_price |-> 6, youth_daily_price |-> 2,
   child_full_price |-> 4, child_daily_price |-> 1,
   motel_stay_free |-> TRUE,
   late_surcharge_tiers |-> << >>]

PricingConfigs == {ConfigA, ConfigB}

\* the same rows with one late-registration tier whose window is day 0 alone
LateTier == [start_date |-> 0, end_date |-> 0, amount |-> 2]
ConfigLate == [ConfigA EXCEPT !.late_surcharge_tiers = <<LateTier>>]
ConfigLateFree == [ConfigB EXCEPT !.late_surcharge_tiers = <<LateTier>>]

computeAge(dob_year, dob_md, ev) ==
  (ev.start_year - dob_year) - (IF ev.start_md < dob_md THEN 1 ELSE 0)

deriveCategory(age, adultThreshold, youthThreshold) ==
  IF age >= adultThreshold THEN "adult"
  ELSE IF age >= youthThreshold THEN "youth"
  ELSE "child"

isWithinInterval(t, start, end) == start <= t /\ t <= end

RECURSIVE findSurchargeTierFrom(_, _, _)
findSurchargeTierFrom(tiers, regDate, i) ==
  IF i > Len(tiers) THEN 0
  ELSE IF isWithinInterval(regDate, parseISO(tiers[i].start_date), parseISO(tiers[i].end_date))
       THEN i
       ELSE findSurchargeTierFrom(tiers, regDate, i + 1)

\* index of the first tier containing the date, 0 when there is none
findSurchargeTier(tiers, regDate) == findSurchargeTierFrom(tiers, regDate, 1)

applySurcharge(baseAmount, code, pricing, regDate) ==
  LET t == findSurchargeTier(pricing.late_surcharge_tiers, regDate)
      surcharge == IF t = 0 THEN 0 ELSE pricing.late_surcharge_tiers[t].amount
  IN [amount |-> baseAmount + surcharge, baseAmount |-> baseAmount,
      surcharge |-> surcharge, explanationCode |-> code]

fullPrice(category, pricing) ==
  IF category = "adult" THEN [price |-> pricing.adult_full_price, code |-> "FULL_ADULT"]
  ELSE IF category = "youth" THEN [price |-> pricing.youth_full_price, code |-> "FULL_YOUTH"]
  ELSE [price |-> pricing.child_full_price, code |-> "FULL_CHILD"]

dailyRate(category, pricing) ==
  IF category = "adult" THEN [rate |-> pricing.adult_daily_price, code |-> "PARTIAL_ADULT"]
  ELSE IF category = "youth" THEN [rate |-> pricing.youth_daily_price, code |-> "PARTIAL_YOUTH"]
  ELSE [rate |-> pricing.child_daily_price, code |-> "PARTIAL_CHILD"]

\* variant: a child of exactly the threshold age is charged
isInfant_Strict(ageAtEvent, ev) == ageAtEvent < ev.infant_age_threshold

\* ageAtEvent <= infantThreshold
isInfant(ageAtEvent, ev) == ageAtEvent <= ev.infant_age_threshold

\* variant: the motel check comes before the full-duration check
pricingPath_MotelFirst(input, pricing) ==
  IF input.isStayingInMotel /\ pricing.motel_stay_free THEN "motelFree"
  ELSE IF input.isFullDuration THEN "full"
  ELSE "daily"

\* the order of the checks after the infant path
pricingPath(input, pricing) ==
  IF input.isFullDuration THEN "full"
  ELSE IF input.isStayingInMotel /\ pricing.motel_stay_free THEN "motelFree"
  ELSE "daily"

\* variant: the free partial stay goes through the surcharge like the paid paths
motelFreeResult_Surcharged(pricing, regDate) ==
  applySurcharge(0, "PARTIAL_MOTEL_FREE", pricing, regDate)

\* the result of the free partial stay, returned as it is
motelFreeResult(pricing, regDate) ==
  [amount |-> 0, baseAmount |-> 0, surcharge |-> 0, explanationCode |-> "PARTIAL_MOTEL_FREE"]

computePricing(input, ev, pricing, regDate) ==
  LET ageAtEvent == computeAge(input.dob_year, input.dob_md, ev)
      category == deriveCategory(ageAtEvent, ev.adult_age_threshold, ev.youth_age_threshold)
      path == pricingPath(input, pricing)
  IN IF isInfant(ageAtEvent, ev)
     THEN [amount |-> 0, baseAmount |-> 0, surcharge |-> 0, explanationCode |-> "FREE_INFANT"]
     ELSE IF path = "full"
     THEN applySurcharge(fullPrice(category, pricing).price, fullPrice(category, pricing).code,
                         pricing, regDate)
     ELSE IF path = "motelFree"
     THEN motelFreeResult(pricing, regDate)
     ELSE applySurcharge(dailyRate(category, pricing).rate * input.numDays,
                         dailyRate(category, pricing).code, pricing, regDate)

RECURSIVE SumAmounts(_)
SumAmounts(items) ==
  IF items = << >> THEN 0 ELSE Head(items).amount + SumAmounts(Tail(items))

\* variant: the member keeps the amount computed for it alone
stripSurcharge_Keep(result) == result

\* the member's item: base amount only, its own surcharge removed
stripSurcharge(result) == [result EXCEPT !.amount = result.baseAmount, !.surcharge = 0]

\* variant: the tier applies whatever the subtotal
groupSurcharge_AnySubtotal(subtotal, t, pricing) ==
  IF t # 0 THEN pricing.late_surcharge_tiers[t].amount ELSE 0

\* subtotal > 0 && tier ? Number(tier.amount) : 0
groupSurcharge(subtotal, t, pricing) ==
  IF subtotal > 0 /\ t # 0 THEN pricing.late_surcharge_tiers[t].amount ELSE 0

computeGroupPricing(inputs, ev, pricing, regDate) ==
  LET items == [i \in 1..Len(inputs) |->
                 stripSurcharge(computePricing(inputs[i], ev, pricing, regDate))]
      subtotal == SumAmounts(items)
      t == findSurchargeTier(pricing.late_surcharge_tiers, regDate)
      surcharge == groupSurcharge(subtotal, t, pricing)
  IN [items |-> items, subtotal |-> subtotal, surcharge |-> surcharge,
      grandTotal |-> subtotal + surcharge]


(* ------------------------------------------------------------------ *)
(*  State                                                              *)
(* ------------------------------------------------------------------ *)
VARIABLES
  registrations,   \* registrations table: row id -> mutable columns
  payments,        \* payments table: sequence of rows, row id = index
  pricing_config,  \* the event's pricing_config row
  sessions,        \* the gateway's checkout sessions, session id = index
  now,             \* the wall clock (new Date())
  cs,              \* per session-initiation request in progress: position and locals
  wh,              \* per webhook delivery in progress: position and locals
  applied,         \* events whose delivery committed the payment and answered
  payCompleted,    \* per session id: number of pending -> completed transitions
  emails,          \* per session id: number of receipt emails started
  regConfirmed,    \* per registration: number of pending -> confirmed transitions
  lastCall,        \* the session-initiation response just sent (until the next step)
  lastDelivery,    \* the webhook response just sent (until the next step)
  quote,           \* a call of the pricing engine: its arguments and its result
  created,         \* a registration submission: its arguments and the rows inserted
  limiter          \* the rate limiter: its clock, its windows map, the calls it let pass

vars == <<registrations, payments, pricing_config, sessions, now, cs, wh,
          applied, payCompleted, emails, regConfirmed, lastCall, lastDelivery,
          quote, created, limiter>>

\* no submission under examination
NoSubmission == [kind |-> "none", inputs |-> << >>, pricing |-> << >>, at |-> 0,
                 rows |-> << >>, done |-> FALSE]

\* last instant of the limiter's clock; one instant is half a window (30 s)
MaxClock == 3
\* requests allowed per window (the routes use 5 to 30)
RATE_LIMIT == 2
\* window length and cleanup interval, 60_000 ms each, in instants
RATE_WINDOW_MS == 2
CLEANUP_INTERVAL_MS == 2

\* `${routeName}:${ip}`
RateKeys == {"k1", "k2"}

\* const windows = new Map(); let lastCleanup = Date.now(); no call let pass yet
FreshLimiter ==
  [clock |-> 0, windows |-> << >>, lastCleanup |-> 0,
   passed |-> [k \in RateKeys |-> [t \in 0..MaxClock |-> 0]],
   last |-> [key |-> "none", success |-> FALSE]]

\* no call of the pricing engine under examination
NoQuote == [input |-> << >>, event |-> << >>, pricing |-> << >>, regDate |-> 0,
            result |-> << >>, done |-> FALSE]

NoEvent == [type |-> "none", session |-> NoSession]

\* what a delivery carries and the process environment it meets: the
\* stripe-signature header, STRIPE_WEBHOOK_SECRET set, constructEvent (with a
\* secret) or JSON.parse (without) not throwing, NODE_ENV === "development",
\* ALLOW_INSECURE_WEBHOOKS === "true"
Gates ==
  [header : BOOLEAN, secret : BOOLEAN, valid : BOOLEAN,
   development : BOOLEAN, allow_insecure : BOOLEAN]

\* a signed delivery of the gateway in a production environment
Trusted ==
  [header |-> TRUE, secret |-> TRUE, valid |-> TRUE,
   development |-> FALSE, allow_insecure |-> FALSE]

NoCall ==
  [status |-> 0, sessionId |-> NoSession, kind |-> "none", target |-> 0,
   total |-> 0, created |-> NoSession, alone |-> FALSE, prev |-> NoSession,
   afterExpiry |-> FALSE, fault |-> "none"]

NoDelivery ==
  [status |-> 0, duplicate |-> FALSE, event |-> NoEvent, outcome |-> "none",
   wrote |-> FALSE, afterApplied |-> FALSE, gate |-> Trusted]

\* idempotency keys written by the two flows
soloKey(registrationId) == "reg_" \o ToString(registrationId)
groupKey(groupId) == "group_" \o ToString(groupId)

IdleCaller ==
  [pc |-> "idle", kind |-> "none", target |-> 0, groupId |-> NoGroup,
   regs |-> << >>, stored |-> << >>, items |-> << >>, total |-> 0,
   existing |-> NoPayment, existingSession |-> NoSession, session |-> NoSession,
   alone |-> FALSE, prev |-> NoSession, afterExpiry |-> FALSE, fault |-> "none"]

IdleHandler ==
  [pc |-> "idle", event |-> NoEvent, afterApplied |-> FALSE, gate |-> Trusted]

\* rows as the group submission route inserts them (pending, base amounts)
\* POST /api/registration/create: the row inserted for one registrant; the
\* engine is called without a registration date, so the surcharge is the one
\* of the instant of creation
SoloRow(input, ev, pricing, createdAt) ==
  LET p == computePricing(input, ev, pricing, createdAt)
  IN [status |-> IF p.amount = 0 THEN "confirmed" ELSE "pending",
      confirmed_at |-> IF p.amount = 0 THEN createdAt ELSE NoDate,
      computed_amount |-> p.amount,
      explanation_code |-> p.explanationCode,
      pending_payment_started |-> FALSE]

\* POST /api/registration/create-group: the rows inserted for the members;
\* status and confirmed_at follow isFreeGroup = (grandTotal === 0)
GroupRows(inputs, ev, pricing, createdAt) ==
  LET g == computeGroupPricing(inputs, ev, pricing, createdAt)
      isFreeGroup == g.grandTotal = 0
  IN [i \in 1..Len(inputs) |->
        [status |-> IF isFreeGroup THEN "confirmed" ELSE "pending",
         confirmed_at |-> IF isFreeGroup THEN createdAt ELSE NoDate,
         computed_amount |-> g.items[i].amount,
         explanation_code |-> g.items[i].explanationCode,
         pending_payment_started |-> FALSE]]

InitialRegistration(r) == GroupRows(<<Attrs(1), Attrs(2)>>, Event, ConfigA, 0)[r]

Init ==
  /\ registrations = [r \in Regs |-> InitialRegistration(r)]
  /\ payments = << >>
  /\ pricing_config = ConfigA
  /\ sessions = << >>
  /\ now = 0
  /\ cs = [c \in Callers |-> IdleCaller]
  /\ wh = [w \in Handlers |-> IdleHandler]
  /\ applied = {}
  /\ payCompleted = [s \in 1..MaxSessions |-> 0]
  /\ emails = [s \in 1..MaxSessions |-> 0]
  /\ regConfirmed = [r \in Regs |-> 0]
  /\ lastCall = NoCall
  /\ lastDelivery = NoDelivery
  /\ quote = NoQuote
  /\ created = NoSubmission
  /\ limiter = FreshLimiter

\* a step of anything else ends a request's running undisturbed
Disturbed(rec) ==
  [rec EXCEPT !.alone = FALSE, !.prev = NoSession, !.afterExpiry = FALSE]

Disturb(c) == [d \in Callers |-> IF d = c THEN cs[d] ELSE Disturbed(cs[d])]
DisturbAll == [d \in Callers |-> Disturbed(cs[d])]

(* ------------------------------------------------------------------ *)
(*  Environment: clock, administrator, payer, gateway                  *)
(* ------------------------------------------------------------------ *)
Tick ==
  /\ now < MaxNow
  /\ now' = now + 1
  /\ cs' = DisturbAll
  /\ lastCall' = NoCall
  /\ lastDelivery' = NoDelivery
  /\ quote' = quote
  /\ created' = created
  /\ limiter' = limiter
  /\ UNCHANGED <<registrations, payments, pricing_config, sessions, wh,
                 applied, payCompleted, emails, regConfirmed>>

\* the admin settings page stores another pricing configuration
UpdatePricing ==
  /\ \E p \in PricingConfigs \ {pricing_config} : pricing_config' = p
  /\ cs' = DisturbAll
  /\ lastCall' = NoCall
  /\ lastDelivery' = NoDelivery
  /\ quote' = quote
  /\ created' = created
  /\ limiter' = limiter
  /\ UNCHANGED <<registrations, payments, sessions, now, wh,
                 applied, payCompleted, emails, regConfirmed>>

\* the payer pays a checkout session whose URL a request returned
PayerCompletes ==
  \E s \in 1..Len(sessions) :
    /\ sessions[s].status = "open"
    /\ sessions[s].returned
    /\ sessions' = [sessions EXCEPT ![s].status = "complete"]
    /\ cs' = DisturbAll
    /\ lastCall' = NoCall
    /\ lastDelivery' = NoDelivery
    /\ quote' = quote
    /\ created' = created
    /\ limiter' = limiter
    /\ UNCHANGED <<registrations, payments, pricing_config, now, wh,
                   applied, payCompleted, emails, regConfirmed>>

\* the gateway expires an open checkout session
SessionExpires ==
  \E s \in 1..Len(sessions) :
    /\ sessions[s].status = "open"
    /\ sessions' = [sessions EXCEPT ![s].status = "expired"]
    /\ cs' = DisturbAll
    /\ lastCall' = NoCall
    /\ lastDelivery' = NoDelivery
    /\ quote' = quote
    /\ created' = created
    /\ limiter' = limiter
    /\ UNCHANGED <<registrations, payments, pricing_config, now, wh,
                   applied, payCompleted, emails, regConfirmed>>

(* ------------------------------------------------------------------ *)
(*  Session initiation: POST /api/payment/create-session               *)
(* ------------------------------------------------------------------ *)
Groups == {Attrs(r).group_id : r \in Regs} \ {NoGroup}

RegOrder == [i \in 1..Cardinality(Regs) |-> i]

\* .eq("group_id", g).eq("status", "pending"), rows in creation order
PendingOf(g) ==
  SelectSeq(RegOrder, LAMBDA r : Attrs(r).group_id = g /\ registrations[r].status = "pending")

\* NextResponse.json(...): the response of a request that is over
Respond(rec, status, sessionId) ==
  [status |-> status, sessionId |-> sessionId, kind |-> rec.kind, target |-> rec.target,
   total |-> rec.total, created |-> rec.session, alone |-> rec.alone, prev |-> rec.prev,
   afterExpiry |-> rec.afterExpiry, fault |-> rec.fault]

Drifted(rec) == {i \in 1..Len(rec.items) : rec.items[i].amount # rec.stored[i]}

\* variant: a zero amount is not rejected
AfterDrift_NoReject(rec) ==
  IF Drifted(rec) # {} THEN "drift" ELSE "findPayment"

\* position after the drift writes: the zero-amount rejection or the payment lookup
AfterDrift(rec) ==
  IF Drifted(rec) # {} THEN "drift"
  ELSE IF rec.total = 0 THEN "reject"
  ELSE "findPayment"

\* the registration the payment row is tracked against
LookupReg(rec) == rec.regs[1]

\* the request retries a registration whose payment row an expiry event closed
ExpiredRetry(kind, target) ==
  LET rs == IF kind = "solo" THEN <<target>> ELSE PendingOf(target)
  IN /\ rs # << >>
     /\ rs[1] \in Regs
     /\ registrations[rs[1]].status = "pending"
     /\ \E i \in 1..Len(payments) :
          /\ payments[i].registration_id = rs[1]
          /\ payments[i].status = "expired"
     /\ ~ \E i \in 1..Len(payments) :
          payments[i].registration_id = rs[1] /\ payments[i].status = "pending"

\* one step of request c: its new locals, or its response when it is over
CallerStep(c, rec, resp) ==
  /\ cs' = [Disturb(c) EXCEPT ![c] = IF resp = NoCall THEN rec ELSE IdleCaller]
  /\ lastCall' = resp
  /\ lastDelivery' = NoDelivery
  /\ quote' = quote
  /\ created' = created
  /\ limiter' = limiter

\* the request arrives; handleSoloPayment / handleGroupPayment read the registration
\* row(s), read pricing_config and recompute with new Date() as registration date
CsStart(c) ==
  /\ cs[c].pc = "idle"
  /\ \E kind \in {"solo", "group"} :
       \E target \in (IF kind = "solo" THEN Regs \cup {UnknownReg} ELSE Groups) :
         LET rs == IF kind = "solo" THEN <<target>> ELSE PendingOf(target)
             solo == computePricing(Attrs(target), Event, pricing_config, now)
             grp == computeGroupPricing([i \in 1..Len(rs) |-> Attrs(rs[i])],
                                        Event, pricing_config, now)
             rec == [IdleCaller EXCEPT !.kind = kind, !.target = target,
                       !.groupId = IF kind = "group" THEN target ELSE NoGroup,
                       !.alone = TRUE,
                       !.prev = IF lastCall.status = 200 /\ lastCall.alone
                                   /\ lastCall.kind = kind /\ lastCall.target = target
                                THEN lastCall.sessionId ELSE NoSession,
                       !.afterExpiry = ExpiredRetry(kind, target)]
             priced == [rec EXCEPT
                          !.regs = rs,
                          !.stored = [i \in 1..Len(rs) |-> registrations[rs[i]].computed_amount],
                          !.items = IF kind = "solo" THEN <<solo>> ELSE grp.items,
                          !.total = IF kind = "solo" THEN solo.amount ELSE grp.grandTotal]
         IN IF kind = "solo" /\ target \notin Regs
            THEN CallerStep(c, rec, Respond(rec, 404, NoSession))
            ELSE IF kind = "solo" /\ registrations[target].status = "confirmed"
            THEN CallerStep(c, rec, Respond(rec, 400, NoSession))
            ELSE IF rs = << >>
            THEN CallerStep(c, rec, Respond(rec, 404, NoSession))
            ELSE IF kind = "group"
                    /\ \E i \in 1..Len(rs) : registrations[rs[i]].status = "confirmed"
            THEN CallerStep(c, rec, Respond(rec, 400, NoSession))
            ELSE IF AfterDrift(priced) = "reject"
            THEN CallerStep(c, priced, Respond(priced, 400, NoSession))
            ELSE CallerStep(c, [priced EXCEPT !.pc = AfterDrift(priced)], NoCall)
  /\ UNCHANGED <<registrations, payments, pricing_config, sessions, now, wh,
                 applied, payCompleted, emails, regConfirmed>>

\* the drift correction: one update by id, any status, per drifted registration
CsDrift(c) ==
  /\ cs[c].pc = "drift"
  /\ LET rec == cs[c]
         i == CHOOSE k \in Drifted(rec) : \A m \in Drifted(rec) : k <= m
         r == rec.regs[i]
         written == [rec EXCEPT !.stored[i] = rec.items[i].amount]
     IN /\ registrations' = [registrations EXCEPT
                               ![r].computed_amount = rec.items[i].amount,
                               ![r].explanation_code = rec.items[i].explanationCode]
        /\ IF AfterDrift(written) = "reject"
           THEN CallerStep(c, written, Respond(written, 400, NoSession))
           ELSE CallerStep(c, [written EXCEPT !.pc = AfterDrift(written)], NoCall)
  /\ UNCHANGED <<payments, pricing_config, sessions, now, wh,
                 applied, payCompleted, emails, regConfirmed>>

\* .eq("registration_id", ..).eq("status", "pending").maybeSingle():
\* the row when exactly one matches, no data when none or several match
PendingPaymentOf(r) ==
  LET rows == {i \in 1..Len(payments) :
                 payments[i].registration_id = r /\ payments[i].status = "pending"}
  IN IF Cardinality(rows) = 1 THEN CHOOSE i \in rows : TRUE ELSE NoPayment

CsFindPayment(c) ==
  /\ cs[c].pc = "findPayment"
  /\ LET rec == cs[c]
         e == PendingPaymentOf(LookupReg(rec))
     IN CallerStep(c,
          IF e # NoPayment
          THEN [rec EXCEPT !.pc = "retrieve", !.existing = e,
                           !.existingSession = payments[e].stripe_session_id]
          ELSE [rec EXCEPT !.pc = "create"],
          NoCall)
  /\ UNCHANGED <<registrations, payments, pricing_config, sessions, now, wh,
                 applied, payCompleted, emails, regConfirmed>>

\* variant: the existing session is never handed out again
Reusable_Never(s) == sessions[s].status = "none"

\* the existing session is handed out again when the gateway reports it open
Reusable(s) == sessions[s].status = "open"

\* stripe.checkout.sessions.retrieve on the pending row's session
CsRetrieve(c) ==
  /\ cs[c].pc = "retrieve"
  /\ LET rec == cs[c]
         s == rec.existingSession
     IN IF Reusable(s)
        THEN /\ CallerStep(c, rec, Respond(rec, 200, s))
             /\ sessions' = [sessions EXCEPT ![s].returned = TRUE]
        ELSE /\ CallerStep(c, [rec EXCEPT !.pc = "create"], NoCall)
             /\ sessions' = sessions
  /\ UNCHANGED <<registrations, payments, pricing_config, now, wh,
                 applied, payCompleted, emails, regConfirmed>>

\* how many checkout sessions a behaviour holds at most: one counter per session
SessionCap == Len(payCompleted)

\* stripe.checkout.sessions.create with the recomputed line items
CsCreate(c) ==
  /\ cs[c].pc = "create"
  /\ Len(sessions) < SessionCap
  /\ LET rec == cs[c]
     IN /\ sessions' = Append(sessions,
                         [status |-> "open", amount |-> rec.total,
                          registration_id |-> LookupReg(rec),
                          group_id |-> rec.groupId, returned |-> FALSE])
        /\ CallerStep(c, [rec EXCEPT !.pc = "save", !.session = Len(sessions) + 1], NoCall)
  /\ UNCHANGED <<registrations, payments, pricing_config, now, wh,
                 applied, payCompleted, emails, regConfirmed>>

IdempotencyKeyOf(rec) ==
  IF rec.kind = "solo" THEN soloKey(rec.target) ELSE groupKey(rec.target)

\* payments.idempotency_key is UNIQUE: the write fails when another row holds the key
KeyConflict(key, except) ==
  \E j \in 1..Len(payments) : j # except /\ payments[j].idempotency_key = key

\* update the pending row that was read (by id only), or insert a new row
SavePayment(rec) ==
  IF rec.existing # NoPayment
  THEN [payments EXCEPT ![rec.existing] =
          [@ EXCEPT !.stripe_session_id = rec.session, !.amount = rec.total,
                    !.idempotency_key = IdempotencyKeyOf(rec)]]
  ELSE Append(payments,
         [registration_id |-> LookupReg(rec), stripe_session_id |-> rec.session,
          stripe_event_id |-> NoEvent, amount |-> rec.total, status |-> "pending",
          idempotency_key |-> IdempotencyKeyOf(rec)])

\* variant: the error of the write is not looked at
AfterSave_IgnoresError(dbError) == IF dbError THEN "mark" ELSE "mark"

\* if (dbError): expire the new session and answer 500, else go on
AfterSave(dbError) == IF dbError THEN "expire" ELSE "mark"

CsSave(c) ==
  /\ cs[c].pc = "save"
  /\ LET rec == cs[c]
         dbError == KeyConflict(IdempotencyKeyOf(rec), rec.existing)
     IN /\ payments' = IF dbError THEN payments ELSE SavePayment(rec)
        /\ CallerStep(c, [rec EXCEPT !.pc = AfterSave(dbError)], NoCall)
  /\ UNCHANGED <<registrations, pricing_config, sessions, now, wh,
                 applied, payCompleted, emails, regConfirmed>>

\* the write fails for a reason outside the rows (storage unavailable)
CsSaveFault(c) ==
  /\ cs[c].pc = "save"
  /\ LET rec == cs[c]
     IN CallerStep(c, [rec EXCEPT !.pc = AfterSave(TRUE), !.fault = "save"], NoCall)
  /\ UNCHANGED <<registrations, payments, pricing_config, sessions, now, wh,
                 applied, payCompleted, emails, regConfirmed>>

\* the write failed: stripe.checkout.sessions.expire(session.id), then 500
CsExpire(c) ==
  /\ cs[c].pc = "expire"
  /\ LET rec == cs[c]
     IN /\ sessions' = IF sessions[rec.session].status = "open"
                       THEN [sessions EXCEPT ![rec.session].status = "expired"]
                       ELSE sessions
        /\ CallerStep(c, rec, Respond(rec, 500, NoSession))
  /\ UNCHANGED <<registrations, payments, pricing_config, now, wh,
                 applied, payCompleted, emails, regConfirmed>>

\* the expiry request itself throws: try { ... } catch { /* best effort */ }, then 500
CsExpireFault(c) ==
  /\ cs[c].pc = "expire"
  /\ LET rec == [cs[c] EXCEPT !.fault = "expire"]
     IN CallerStep(c, rec, Respond(rec, 500, NoSession))
  /\ UNCHANGED <<registrations, payments, pricing_config, sessions, now, wh,
                 applied, payCompleted, emails, regConfirmed>>

\* set pending_payment_started_at on the still-pending row(s)
MarkStarted(rec) ==
  [r \in Regs |->
     IF /\ registrations[r].status = "pending"
        /\ IF rec.kind = "solo" THEN r = rec.target
           ELSE Attrs(r).group_id = rec.groupId
     THEN [registrations[r] EXCEPT !.pending_payment_started = TRUE]
     ELSE registrations[r]]

\* the last write, then the response { sessionId, url }
CsMark(c) ==
  /\ cs[c].pc = "mark"
  /\ LET rec == cs[c]
     IN /\ registrations' = MarkStarted(rec)
        /\ sessions' = [sessions EXCEPT ![rec.session].returned = TRUE]
        /\ CallerStep(c, rec, Respond(rec, 200, rec.session))
  /\ UNCHANGED <<payments, pricing_config, now, wh,
                 applied, payCompleted, emails, regConfirmed>>


(* ------------------------------------------------------------------ *)
(*  Webhook: POST /api/webhooks/stripe                                 *)
(* ------------------------------------------------------------------ *)
\* the events the gateway has emitted (delivered at least once, in any order,
\* any number of times), and one event of a type the handler does not know
Events ==
  {[type |-> "checkout.session.completed", session |-> s] :
     s \in {k \in 1..Len(sessions) : sessions[k].status = "complete"}}
  \cup
  {[type |-> "checkout.session.expired", session |-> s] :
     s \in {k \in 1..Len(sessions) : sessions[k].status = "expired"}}
  \cup
  {[type |-> "customer.created", session |-> NoSession]}

\* NextResponse.json({ received: true [, duplicate: true] })
WhRespond(rec, outcome, wrote) ==
  [status |-> 200, duplicate |-> (outcome = "duplicate"), event |-> rec.event,
   outcome |-> outcome, wrote |-> wrote, afterApplied |-> rec.afterApplied,
   gate |-> rec.gate]

\* NextResponse.json({ error }, { status }) before the event is looked at
WhReject(rec, status, outcome) ==
  [status |-> status, duplicate |-> FALSE, event |-> NoEvent,
   outcome |-> outcome, wrote |-> FALSE, afterApplied |-> FALSE,
   gate |-> rec.gate]

\* one step of delivery w: its new locals, or its response when it is over
HandlerStep(w, rec, resp) ==
  /\ wh' = [wh EXCEPT ![w] = IF resp = NoDelivery THEN rec ELSE IdleHandler]
  /\ lastDelivery' = resp
  /\ lastCall' = NoCall
  /\ cs' = DisturbAll
  /\ quote' = quote
  /\ created' = created
  /\ limiter' = limiter

\* variant: the gate never finds the event id
AlreadyProcessed_Never(ev) == ev # ev

\* the idempotency gate: .eq("stripe_event_id", event.id).maybeSingle()
AlreadyProcessed(ev) == \E i \in 1..Len(payments) : payments[i].stripe_event_id = ev

\* the idempotency gate, then the switch on event.type
WhDispatch(w, rec) ==
  IF AlreadyProcessed(rec.event)
  THEN HandlerStep(w, rec, WhRespond(rec, "duplicate", FALSE))
  ELSE IF rec.event.type = "checkout.session.completed"
  THEN HandlerStep(w, [rec EXCEPT !.pc = "fetchPayment"], NoDelivery)
  ELSE IF rec.event.type = "checkout.session.expired"
  THEN HandlerStep(w, [rec EXCEPT !.pc = "expire"], NoDelivery)
  ELSE HandlerStep(w, rec, WhRespond(rec, "unhandled", FALSE))

\* a signed delivery of the gateway arrives where the secret is configured
WhStart(w) ==
  /\ wh[w].pc = "idle"
  /\ \E ev \in Events :
       WhDispatch(w, [IdleHandler EXCEPT !.event = ev, !.afterApplied = ev \in applied])
  /\ UNCHANGED <<registrations, payments, pricing_config, sessions, now,
                 applied, payCompleted, emails, regConfirmed>>

\* variant: the bypass needs the flag only
isLocalDev_FlagOnly(g) == g.allow_insecure

\* NODE_ENV === "development" && ALLOW_INSECURE_WEBHOOKS === "true"
isLocalDev(g) == g.development /\ g.allow_insecure

\* events an unverified body can claim: any type about any session
ForgeableEvents ==
  {[type |-> t, session |-> s] :
     t \in {"checkout.session.completed", "checkout.session.expired"},
     s \in 1..Len(sessions)}
  \cup Events

\* any request arrives in any environment: the signature header check, the
\* verification against the secret or the development bypass, then the
\* idempotency gate and the switch
WhReceive(w) ==
  /\ wh[w].pc = "idle"
  /\ \E g \in Gates :
       LET rec == [IdleHandler EXCEPT !.gate = g]
           parsed(ev) == [rec EXCEPT !.event = ev, !.afterApplied = ev \in applied]
       IN IF ~g.header
          THEN HandlerStep(w, rec, WhReject(rec, 400, "nosignature"))
          ELSE IF g.secret
          THEN IF g.valid
               THEN \E ev \in Events : WhDispatch(w, parsed(ev))
               ELSE HandlerStep(w, rec, WhReject(rec, 400, "invalid"))
          ELSE IF isLocalDev(g)
          THEN IF g.valid
               THEN \E ev \in ForgeableEvents : WhDispatch(w, parsed(ev))
               ELSE HandlerStep(w, rec, WhReject(rec, 400, "invalid"))
          ELSE HandlerStep(w, rec, WhReject(rec, 500, "nosecret"))
  /\ UNCHANGED <<registrations, payments, pricing_config, sessions, now,
                 applied, payCompleted, emails, regConfirmed>>

PaymentBySession(s) == {i \in 1..Len(payments) : payments[i].stripe_session_id = s}

\* variant: a completed payment is not recognised
AlreadyCompleted_Never(rows) == rows # rows

\* payment.status === "completed"
AlreadyCompleted(rows) == \E i \in rows : payments[i].status = "completed"

\* guard: the payment row exists and is not completed yet
WhFetchPayment(w) ==
  /\ wh[w].pc = "fetchPayment"
  /\ LET rec == wh[w]
         rows == PaymentBySession(rec.event.session)
     IN IF rows = {}
        THEN HandlerStep(w, rec, WhRespond(rec, "orphan", FALSE))
        ELSE IF AlreadyCompleted(rows)
        THEN HandlerStep(w, rec, WhRespond(rec, "already", FALSE))
        ELSE HandlerStep(w, [rec EXCEPT !.pc = "updatePayment"], NoDelivery)
  /\ UNCHANGED <<registrations, payments, pricing_config, sessions, now,
                 applied, payCompleted, emails, regConfirmed>>

\* variant: the update is not conditional on status = pending
CompleteMatches_AnyStatus(s) == {i \in 1..Len(payments) : payments[i].stripe_session_id = s}

\* .eq("stripe_session_id", session.id).eq("status", "pending"): rows the update matches
CompleteMatches(s) == {i \in PaymentBySession(s) : payments[i].status = "pending"}

\* the conditional update pending -> completed; zero rows matched is a lost race
WhUpdatePayment(w) ==
  /\ wh[w].pc = "updatePayment"
  /\ LET rec == wh[w]
         s == rec.event.session
         rows == CompleteMatches(s)
     IN /\ payments' = [i \in 1..Len(payments) |->
                          IF i \in rows
                          THEN [payments[i] EXCEPT !.status = "completed",
                                                   !.stripe_event_id = rec.event]
                          ELSE payments[i]]
        /\ payCompleted' = [payCompleted EXCEPT ![s] = @ + Cardinality(rows)]
        /\ IF rows = {}
           THEN HandlerStep(w, rec, WhRespond(rec, "lost", FALSE))
           ELSE HandlerStep(w, [rec EXCEPT !.pc = "confirm"], NoDelivery)
  /\ UNCHANGED <<registrations, pricing_config, sessions, now,
                 applied, emails, regConfirmed>>

\* the payment update returns an error: if (paymentError) break, then 200
WhUpdatePaymentFault(w) ==
  /\ wh[w].pc = "updatePayment"
  /\ HandlerStep(w, wh[w], WhRespond(wh[w], "updateError", FALSE))
  /\ UNCHANGED <<registrations, payments, pricing_config, sessions, now,
                 applied, payCompleted, emails, regConfirmed>>

\* variant: only the registration the payment row is tracked against is confirmed
ConfirmMatches_PrimaryOnly(s) ==
  {r \in Regs : registrations[r].status = "pending" /\ r = sessions[s].registration_id}

\* variant: the registration update is not conditional on status = pending
ConfirmMatches_AnyStatus(s) ==
  {r \in Regs : IF sessions[s].group_id # NoGroup
                THEN Attrs(r).group_id = sessions[s].group_id
                ELSE r = sessions[s].registration_id}

\* rows the registration update matches: the group's pending rows when the session
\* metadata carries a group id, else the one registration when it is pending
ConfirmMatches(s) ==
  {r \in Regs :
     /\ registrations[r].status = "pending"
     /\ IF sessions[s].group_id # NoGroup
        THEN Attrs(r).group_id = sessions[s].group_id
        ELSE r = sessions[s].registration_id}

\* the registration update, then the rows are read back, the receipt email is
\* started (fire and forget) and the delivery is answered 200
WhConfirm(w) ==
  /\ wh[w].pc = "confirm"
  /\ LET rec == wh[w]
         rows == ConfirmMatches(rec.event.session)
     IN /\ registrations' = [r \in Regs |->
                               IF r \in rows
                               THEN [registrations[r] EXCEPT !.status = "confirmed",
                                                             !.confirmed_at = now]
                               ELSE registrations[r]]
        /\ regConfirmed' = [r \in Regs |->
                              IF r \in rows THEN regConfirmed[r] + 1 ELSE regConfirmed[r]]
        /\ emails' = [emails EXCEPT ![rec.event.session] = @ + 1]
        /\ applied' = applied \cup {rec.event}
        /\ HandlerStep(w, rec, WhRespond(rec, "confirmed", TRUE))
  /\ UNCHANGED <<payments, pricing_config, sessions, now, payCompleted>>

\* variant: the expiry is not conditional on status = pending
ExpireMatches_AnyStatus(s) == {i \in 1..Len(payments) : payments[i].stripe_session_id = s}

\* variant: the expiry is not restricted to the event's session
ExpireMatches_AnySession(s) == {i \in 1..Len(payments) : payments[i].status = "pending"}

\* what can fail once the payment update has committed: the registration
\* update, the read of the row(s) for the receipt, the pricing_config read for
\* the group receipt, the email send
Faults ==
  [registration : BOOLEAN, read : BOOLEAN, pricing : BOOLEAN, email : BOOLEAN]
  \ {[registration |-> FALSE, read |-> FALSE, pricing |-> FALSE, email |-> FALSE]}

\* variant: a rejected email send reaches the catch of the handler
ConfirmStatus_EmailPropagates(f) == IF f.email /\ ~f.read THEN 500 ELSE 200

\* errors are logged, absent data skips the receipt, the send has .catch(() => {})
ConfirmStatus(f) == IF f.email /\ ~f.read THEN 200 ELSE 200

\* the steps after the payment update with some of them failing
WhConfirmFault(w) ==
  /\ wh[w].pc = "confirm"
  /\ \E f \in Faults :
       LET rec == wh[w]
           rows == IF f.registration THEN {} ELSE ConfirmMatches(rec.event.session)
           sent == IF f.read THEN 0 ELSE 1
       IN /\ registrations' = [r \in Regs |->
                                 IF r \in rows
                                 THEN [registrations[r] EXCEPT !.status = "confirmed",
                                                               !.confirmed_at = now]
                                 ELSE registrations[r]]
          /\ regConfirmed' = [r \in Regs |->
                                IF r \in rows THEN regConfirmed[r] + 1 ELSE regConfirmed[r]]
          /\ emails' = [emails EXCEPT ![rec.event.session] = @ + sent]
          /\ applied' = applied \cup {rec.event}
          /\ HandlerStep(w, rec,
               [WhRespond(rec, "confirmed", TRUE) EXCEPT !.status = ConfirmStatus(f)])
  /\ UNCHANGED <<payments, pricing_config, sessions, now, payCompleted>>

\* .eq("stripe_session_id", session.id).eq("status", "pending"): rows the expiry matches
ExpireMatches(s) == {i \in PaymentBySession(s) : payments[i].status = "pending"}

\* checkout.session.expired: the conditional update pending -> expired
WhExpire(w) ==
  /\ wh[w].pc = "expire"
  /\ LET rec == wh[w]
         rows == ExpireMatches(rec.event.session)
     IN /\ payments' = [i \in 1..Len(payments) |->
                          IF i \in rows
                          THEN [payments[i] EXCEPT !.status = "expired",
                                                   !.stripe_event_id = rec.event]
                          ELSE payments[i]]
        /\ HandlerStep(w, rec, WhRespond(rec, "expired", rows # {}))
  /\ UNCHANGED <<registrations, pricing_config, sessions, now,
                 applied, payCompleted, emails, regConfirmed>>

(* ------------------------------------------------------------------ *)
(*  Specification                                                      *)
(* ------------------------------------------------------------------ *)
\* one request and one delivery at a time, interleaved with each other, with the
\* payer, the gateway, the clock and the administrator's pricing changes
Next ==
  \/ Tick
  \/ UpdatePricing
  \/ PayerCompletes
  \/ SessionExpires
  \/ CsStart("c1")
  \/ CsDrift("c1")
  \/ CsFindPayment("c1")
  \/ CsRetrieve("c1")
  \/ CsCreate("c1")
  \/ CsSave("c1")
  \/ CsExpire("c1")
  \/ CsMark("c1")
  \/ WhStart("w1")
  \/ WhFetchPayment("w1")
  \/ WhUpdatePayment("w1")
  \/ WhConfirm("w1")
  \/ WhExpire("w1")

Spec == Init /\ [][Next]_vars

\* concurrent deliveries racing each other and one request, the pricing
\* configuration left as it was when the registrations were created
NextRace ==
  \/ Tick
  \/ PayerCompletes
  \/ SessionExpires
  \/ CsStart("c1")
  \/ CsFindPayment("c1")
  \/ CsRetrieve("c1")
  \/ CsCreate("c1")
  \/ CsSave("c1")
  \/ CsExpire("c1")
  \/ CsMark("c1")
  \/ \E w \in Handlers :
       \/ WhStart(w)
       \/ WhFetchPayment(w)
       \/ WhUpdatePayment(w)
       \/ WhConfirm(w)
       \/ WhExpire(w)

SpecRace == Init /\ [][NextRace]_vars

\* deliveries from anyone in any environment, none of the sessions expiring
\* by itself; pricing and clock left alone
NextGate ==
  \/ PayerCompletes
  \/ CsStart("c1")
  \/ CsFindPayment("c1")
  \/ CsRetrieve("c1")
  \/ CsCreate("c1")
  \/ CsSave("c1")
  \/ CsExpire("c1")
  \/ CsMark("c1")
  \/ WhReceive("w1")
  \/ WhFetchPayment("w1")
  \/ WhUpdatePayment("w1")
  \/ WhConfirm("w1")
  \/ WhExpire("w1")

SpecGate == Init /\ [][NextGate]_vars

\* requests and signed deliveries with storage, gateway and email failing at
\* will; pricing and clock left alone
NextFault ==
  \/ PayerCompletes
  \/ SessionExpires
  \/ CsStart("c1")
  \/ CsFindPayment("c1")
  \/ CsRetrieve("c1")
  \/ CsCreate("c1")
  \/ CsSave("c1")
  \/ CsSaveFault("c1")
  \/ CsExpire("c1")
  \/ CsExpireFault("c1")
  \/ CsMark("c1")
  \/ WhStart("w1")
  \/ WhFetchPayment("w1")
  \/ WhUpdatePayment("w1")
  \/ WhUpdatePaymentFault("w1")
  \/ WhConfirm("w1")
  \/ WhConfirmFault("w1")
  \/ WhExpire("w1")

SpecFault == Init /\ [][NextFault]_vars

(* ------------------------------------------------------------------ *)
(*  The pricing engine on its own: every input of a bounded set, one   *)
(*  call of computePricing each                                        *)
(* ------------------------------------------------------------------ *)
MaxDays == 2

\* birth years around the adult, youth and infant thresholds of the event
DobYears == {0, 15, 20, 26, 27, 29}
DobDays == {1, 9}

PricingInputs ==
  [dob_year : DobYears, dob_md : DobDays, isFullDuration : BOOLEAN,
   isStayingInMotel : BOOLEAN, numDays : 1..MaxDays]

\* the event row, and one whose infant threshold an administrator raised
QuoteEvents == {Event, [Event EXCEPT !.infant_age_threshold = 4]}

QuoteConfigs == {ConfigA, ConfigB, ConfigLate, ConfigLateFree}

InitPricing ==
  /\ registrations = [r \in Regs |-> InitialRegistration(r)]
  /\ payments = << >>
  /\ pricing_config = ConfigA
  /\ sessions = << >>
  /\ now = 0
  /\ cs = [c \in Callers |-> IdleCaller]
  /\ wh = [w \in Handlers |-> IdleHandler]
  /\ applied = {}
  /\ payCompleted = [s \in 1..MaxSessions |-> 0]
  /\ emails = [s \in 1..MaxSessions |-> 0]
  /\ regConfirmed = [r \in Regs |-> 0]
  /\ lastCall = NoCall
  /\ lastDelivery = NoDelivery
  /\ created = NoSubmission
  /\ limiter = FreshLimiter
  /\ \E input \in PricingInputs, ev \in QuoteEvents, pricing \in QuoteConfigs,
        regDate \in 0..MaxNow :
        quote = [input |-> input, event |-> ev, pricing |-> pricing,
                 regDate |-> regDate, result |-> << >>, done |-> FALSE]

\* POST /api/pricing/quote: the engine is called once on the arguments
Quote ==
  /\ ~quote.done
  /\ quote' = [quote EXCEPT
                 !.result = computePricing(quote.input, quote.event, quote.pricing,
                                           quote.regDate),
                 !.done = TRUE]
  /\ UNCHANGED <<registrations, payments, pricing_config, sessions, now, cs, wh,
                 applied, payCompleted, emails, regConfirmed, lastCall, lastDelivery,
                 created, limiter>>

NextPricing == Quote

SpecPricing == InitPricing /\ [][NextPricing]_vars

(* ------------------------------------------------------------------ *)
(*  The group aggregation on its own: every list of members of a       *)
(*  bounded set, one call of computeGroupPricing each                  *)
(* ------------------------------------------------------------------ *)
MaxMembers == 2

\* an adult, a child and an infant, with every combination of the flags
GroupMemberInputs ==
  [dob_year : {0, 20, 27}, dob_md : {1}, isFullDuration : BOOLEAN,
   isStayingInMotel : BOOLEAN, numDays : 1..MaxDays]

GroupInputs == UNION {[1..n -> GroupMemberInputs] : n \in 1..MaxMembers}

InitGroup ==
  /\ registrations = [r \in Regs |-> InitialRegistration(r)]
  /\ payments = << >>
  /\ pricing_config = ConfigA
  /\ sessions = << >>
  /\ now = 0
  /\ cs = [c \in Callers |-> IdleCaller]
  /\ wh = [w \in Handlers |-> IdleHandler]
  /\ applied = {}
  /\ payCompleted = [s \in 1..MaxSessions |-> 0]
  /\ emails = [s \in 1..MaxSessions |-> 0]
  /\ regConfirmed = [r \in Regs |-> 0]
  /\ lastCall = NoCall
  /\ lastDelivery = NoDelivery
  /\ created = NoSubmission
  /\ limiter = FreshLimiter
  /\ \E inputs \in GroupInputs, pricing \in QuoteConfigs, regDate \in 0..MaxNow :
        quote = [input |-> inputs, event |-> Event, pricing |-> pricing,
                 regDate |-> regDate, result |-> << >>, done |-> FALSE]

\* POST /api/pricing/quote-group: the aggregation is called once on the list
QuoteGroup ==
  /\ ~quote.done
  /\ quote' = [quote EXCEPT
                 !.result = computeGroupPricing(quote.input, quote.event, quote.pricing,
                                                quote.regDate),
                 !.done = TRUE]
  /\ UNCHANGED <<registrations, payments, pricing_config, sessions, now, cs, wh,
                 applied, payCompleted, emails, regConfirmed, lastCall, lastDelivery,
                 created, limiter>>

NextGroup == QuoteGroup

SpecGroup == InitGroup /\ [][NextGroup]_vars

(* ------------------------------------------------------------------ *)
(*  Registrations created one by one while a surcharge tier is open,   *)
(*  paid while the clock runs; nobody edits the event or the pricing   *)
(* ------------------------------------------------------------------ *)
\* registration r created on its own through POST /api/registration/create
CreatedRegistration(r, pricing, createdAt) == SoloRow(Attrs(r), Event, pricing, createdAt)

InitLate ==
  /\ registrations = [r \in Regs |-> CreatedRegistration(r, ConfigLate, 0)]
  /\ payments = << >>
  /\ pricing_config = ConfigLate
  /\ sessions = << >>
  /\ now = 0
  /\ cs = [c \in Callers |-> IdleCaller]
  /\ wh = [w \in Handlers |-> IdleHandler]
  /\ applied = {}
  /\ payCompleted = [s \in 1..MaxSessions |-> 0]
  /\ emails = [s \in 1..MaxSessions |-> 0]
  /\ regConfirmed = [r \in Regs |-> 0]
  /\ lastCall = NoCall
  /\ lastDelivery = NoDelivery
  /\ quote = NoQuote
  /\ created = NoSubmission
  /\ limiter = FreshLimiter

\* a request for one registration id (the rows were not created as a group)
CsStartSolo(c) ==
  /\ CsStart(c)
  /\ cs'[c].kind # "group"
  /\ lastCall'.kind # "group"

NextLate ==
  \/ Tick
  \/ PayerCompletes
  \/ SessionExpires
  \/ CsStartSolo("c1")
  \/ CsDrift("c1")
  \/ CsFindPayment("c1")
  \/ CsRetrieve("c1")
  \/ CsCreate("c1")
  \/ CsSave("c1")
  \/ CsExpire("c1")
  \/ CsMark("c1")
  \/ WhStart("w1")
  \/ WhFetchPayment("w1")
  \/ WhUpdatePayment("w1")
  \/ WhConfirm("w1")
  \/ WhExpire("w1")

SpecLate == InitLate /\ [][NextLate]_vars

(* ------------------------------------------------------------------ *)
(*  Registration submission on its own: one solo or one group          *)
(*  submission, for every list of registrants of a bounded set         *)
(* ------------------------------------------------------------------ *)
Submissions ==
  [kind : {"solo"}, inputs : [1..1 -> GroupMemberInputs], pricing : QuoteConfigs,
   at : 0..MaxNow, rows : {<< >>}, done : {FALSE}]
  \cup
  [kind : {"group"}, inputs : GroupInputs, pricing : QuoteConfigs,
   at : 0..MaxNow, rows : {<< >>}, done : {FALSE}]

InitCreate ==
  /\ registrations = [r \in Regs |-> InitialRegistration(r)]
  /\ payments = << >>
  /\ pricing_config = ConfigA
  /\ sessions = << >>
  /\ now = 0
  /\ cs = [c \in Callers |-> IdleCaller]
  /\ wh = [w \in Handlers |-> IdleHandler]
  /\ applied = {}
  /\ payCompleted = [s \in 1..MaxSessions |-> 0]
  /\ emails = [s \in 1..MaxSessions |-> 0]
  /\ regConfirmed = [r \in Regs |-> 0]
  /\ lastCall = NoCall
  /\ lastDelivery = NoDelivery
  /\ quote = NoQuote
  /\ limiter = FreshLimiter
  /\ created \in Submissions

\* POST /api/registration/create
CreateSolo ==
  /\ created.kind = "solo"
  /\ ~created.done
  /\ created' = [created EXCEPT
                   !.rows = <<SoloRow(created.inputs[1], Event, created.pricing, created.at)>>,
                   !.done = TRUE]
  /\ UNCHANGED <<registrations, payments, pricing_config, sessions, now, cs, wh,
                 applied, payCompleted, emails, regConfirmed, lastCall, lastDelivery,
                 quote, limiter>>

\* POST /api/registration/create-group
CreateGroup ==
  /\ created.kind = "group"
  /\ ~created.done
  /\ created' = [created EXCEPT
                   !.rows = GroupRows(created.inputs, Event, created.pricing, created.at),
                   !.done = TRUE]
  /\ UNCHANGED <<registrations, payments, pricing_config, sessions, now, cs, wh,
                 applied, payCompleted, emails, regConfirmed, lastCall, lastDelivery,
                 quote, limiter>>

NextCreate == CreateSolo \/ CreateGroup

SpecCreate == InitCreate /\ [][NextCreate]_vars

(* ------------------------------------------------------------------ *)
(*  Several session-initiation calls at once, for one registration id  *)
(*  each, starting where a first checkout session ran out unpaid       *)
(* ------------------------------------------------------------------ *)
\* registration 1 asked for a session, the payer let it expire, and the
\* expiry event has not been delivered: the payment row is still pending
InitCallers ==
  /\ registrations = [r \in Regs |->
                        IF r = 1
                        THEN [InitialRegistration(r) EXCEPT !.pending_payment_started = TRUE]
                        ELSE InitialRegistration(r)]
  /\ payments = <<[registration_id |-> 1, stripe_session_id |-> 1,
                   stripe_event_id |-> NoEvent,
                   amount |-> InitialRegistration(1).computed_amount,
                   status |-> "pending", idempotency_key |-> soloKey(1)]>>
  /\ pricing_config = ConfigA
  /\ sessions = <<[status |-> "expired", amount |-> InitialRegistration(1).computed_amount,
                   registration_id |-> 1, group_id |-> NoGroup, returned |-> TRUE]>>
  /\ now = 0
  /\ cs = [c \in Callers |-> IdleCaller]
  /\ wh = [w \in Handlers |-> IdleHandler]
  /\ applied = {}
  /\ payCompleted = [s \in 1..(MaxSessions + 1) |-> 0]
  /\ emails = [s \in 1..(MaxSessions + 1) |-> 0]
  /\ regConfirmed = [r \in Regs |-> 0]
  /\ lastCall = NoCall
  /\ lastDelivery = NoDelivery
  /\ quote = NoQuote
  /\ created = NoSubmission
  /\ limiter = FreshLimiter

NextCallers ==
  \E c \in Callers :
    \/ CsStartSolo(c)
    \/ CsFindPayment(c)
    \/ CsRetrieve(c)
    \/ CsCreate(c)
    \/ CsSave(c)
    \/ CsExpire(c)
    \/ CsMark(c)

SpecCallers == InitCallers /\ [][NextCallers]_vars

(* ------------------------------------------------------------------ *)
(*  Registrations created one by one and paid one by one, while an     *)
(*  administrator edits the pricing                                    *)
(* ------------------------------------------------------------------ *)
InitSolo ==
  /\ registrations = [r \in Regs |-> CreatedRegistration(r, ConfigA, 0)]
  /\ payments = << >>
  /\ pricing_config = ConfigA
  /\ sessions = << >>
  /\ now = 0
  /\ cs = [c \in Callers |-> IdleCaller]
  /\ wh = [w \in Handlers |-> IdleHandler]
  /\ applied = {}
  /\ payCompleted = [s \in 1..MaxSessions |-> 0]
  /\ emails = [s \in 1..MaxSessions |-> 0]
  /\ regConfirmed = [r \in Regs |-> 0]
  /\ lastCall = NoCall
  /\ lastDelivery = NoDelivery
  /\ quote = NoQuote
  /\ created = NoSubmission
  /\ limiter = FreshLimiter

NextSolo ==
  \/ Tick
  \/ UpdatePricing
  \/ PayerCompletes
  \/ SessionExpires
  \/ CsStartSolo("c1")
  \/ CsDrift("c1")
  \/ CsFindPayment("c1")
  \/ CsRetrieve("c1")
  \/ CsCreate("c1")
  \/ CsSave("c1")
  \/ CsExpire("c1")
  \/ CsMark("c1")
  \/ WhStart("w1")
  \/ WhFetchPayment("w1")
  \/ WhUpdatePayment("w1")
  \/ WhConfirm("w1")
  \/ WhExpire("w1")

SpecSolo == InitSolo /\ [][NextSolo]_vars

(* ------------------------------------------------------------------ *)
(*  The rate limiter on its own: calls for two keys while time passes  *)
(* ------------------------------------------------------------------ *)
\* cleanup(): at most once per interval, entries past their resetAt are deleted
cleanup(l) ==
  IF l.clock - l.lastCleanup < CLEANUP_INTERVAL_MS
  THEN l
  ELSE [l EXCEPT !.lastCleanup = l.clock,
                 !.windows = [k \in {j \in DOMAIN l.windows :
                                        ~(l.clock > l.windows[j].resetAt)} |->
                                l.windows[k]]]

\* windows.set(key, entry)
SetWindow(windows, key, entry) ==
  [k \in DOMAIN windows \cup {key} |-> IF k = key THEN entry ELSE windows[k]]

\* rateLimit(key, limit, windowMs)
rateLimit(l0, key, limit, windowMs) ==
  LET l == cleanup(l0)
      fresh == key \notin DOMAIN l.windows \/ l.clock > l.windows[key].resetAt
      pass(w) == [l EXCEPT !.windows = w,
                           !.passed[key][l.clock] = @ + 1,
                           !.last = [key |-> key, success |-> TRUE]]
  IN IF fresh
     THEN pass(SetWindow(l.windows, key, [count |-> 1, resetAt |-> l.clock + windowMs]))
     ELSE IF l.windows[key].count >= limit
     THEN [l EXCEPT !.last = [key |-> key, success |-> FALSE]]
     ELSE pass([l.windows EXCEPT ![key].count = @ + 1])

\* a request reaches a rate-limited route
RateLimitCall ==
  /\ \E key \in RateKeys :
       limiter' = rateLimit(limiter, key, RATE_LIMIT, RATE_WINDOW_MS)
  /\ UNCHANGED <<registrations, payments, pricing_config, sessions, now, cs, wh,
                 applied, payCompleted, emails, regConfirmed, lastCall, lastDelivery,
                 quote, created>>

\* Date.now() advances
RateTick ==
  /\ limiter.clock < MaxClock
  /\ limiter' = [limiter EXCEPT !.clock = @ + 1]
  /\ UNCHANGED <<registrations, payments, pricing_config, sessions, now, cs, wh,
                 applied, payCompleted, emails, regConfirmed, lastCall, lastDelivery,
                 quote, created>>

NextRate == RateLimitCall \/ RateTick

SpecRate == Init /\ [][NextRate]_vars

TypeOK ==
  /\ \A r \in Regs : registrations[r].status \in {"pending", "confirmed"}
  /\ \A i \in 1..Len(payments) : payments[i].status \in {"pending", "completed", "expired"}
  /\ Len(sessions) <= SessionCap
  /\ now \in 0..MaxNow

(* ------------------------------------------------------------------ *)
(*  Properties                                                         *)
(* ------------------------------------------------------------------ *)
Completed == "checkout.session.completed"
Expired == "checkout.session.expired"

\* the registrations a session's payment confirms
Covered(s) ==
  {r \in Regs : IF sessions[s].group_id # NoGroup
                THEN Attrs(r).group_id = sessions[s].group_id
                ELSE r = sessions[s].registration_id}

C1Step ==
  /\ \A s \in 1..MaxSessions : payCompleted'[s] <= 1 /\ emails'[s] <= 1
  /\ \A e \in applied' :
       /\ payCompleted'[e.session] = 1
       /\ emails'[e.session] = 1
       /\ \A r \in Covered(e.session)' :
            registrations'[r].status = "confirmed" /\ regConfirmed'[r] = 1
  /\ lastDelivery'.afterApplied =>
       /\ lastDelivery'.status = 200
       /\ lastDelivery'.duplicate
       /\ payments' = payments
       /\ registrations' = registrations
       /\ emails' = emails

\* C1: once a delivery of a checkout-completed event has moved the payment from
\* pending to completed and answered, the payment status has changed once, each
\* covered registration has changed once (pending to confirmed) and one receipt
\* email was started; a later delivery of the same event id writes nothing and
\* is answered 200 with duplicate: true.
C1_DuplicateDeliveryIsNoOp == [][C1Step]_vars

C1_Witness ==
  /\ lastDelivery.afterApplied
  /\ lastDelivery.event.type = Completed
  /\ lastDelivery.duplicate

PendingRows(s) ==
  {i \in 1..Len(payments) :
     payments[i].stripe_session_id = s /\ payments[i].status = "pending"}

C2Step ==
  /\ \A s \in 1..MaxSessions : payCompleted'[s] <= 1 /\ emails'[s] <= 1
  /\ \A r \in Regs : regConfirmed'[r] <= 1
  /\ \A w \in Handlers :
       (wh[w].pc = "updatePayment" /\ wh'[w].pc # "updatePayment") =>
         LET s == wh[w].event.session
         IN IF PendingRows(s) # {}
            THEN /\ payCompleted[s] = 0
                 /\ payCompleted'[s] = 1
                 /\ \A i \in PendingRows(s) : payments'[i].status = "completed"
                 /\ wh'[w].pc = "confirm"
            ELSE /\ payments' = payments
                 /\ registrations' = registrations
                 /\ emails' = emails
                 /\ payCompleted' = payCompleted
                 /\ lastDelivery'.status = 200
                 /\ lastDelivery'.outcome = "lost"

\* C2: of two deliveries of a checkout-completed event that both read the payment
\* row as pending, the first conditional update moves the payment to completed;
\* the other one matches zero rows, writes nothing and is answered 200; over any
\* interleaving a session's payment is completed at most once, each registration
\* is confirmed at most once and at most one receipt email is started per session.
C2_FirstWriteWins == [][C2Step]_vars

C2_Witness ==
  /\ lastDelivery.outcome = "lost"
  /\ lastDelivery.event.type = Completed
  /\ payCompleted[lastDelivery.event.session] = 1
  /\ \E i \in 1..Len(payments) :
       /\ payments[i].stripe_session_id = lastDelivery.event.session
       /\ payments[i].status = "completed"

C4Step ==
  \A r \in Regs :
    /\ registrations[r].status = "confirmed" =>
         /\ registrations'[r].status = "confirmed"
         /\ registrations'[r].confirmed_at = registrations[r].confirmed_at
    /\ registrations'[r].status # registrations[r].status =>
         /\ registrations[r].status = "pending"
         /\ registrations'[r].status = "confirmed"

\* C4: a confirmed registration stays confirmed and its confirmed_at is never
\* rewritten by a later event or request; the only status change is pending to
\* confirmed.
C4_ConfirmedIsStable == [][C4Step]_vars

C4_Witness ==
  /\ lastDelivery.outcome = "confirmed"
  /\ sessions[lastDelivery.event.session].group_id # NoGroup
  /\ \E r \in Regs :
       /\ Attrs(r).group_id = sessions[lastDelivery.event.session].group_id
       /\ registrations[r].status = "confirmed"
       /\ registrations[r].confirmed_at < now
  /\ \E r \in Regs : registrations[r].confirmed_at = now

C5Step ==
  /\ Len(payments') >= Len(payments)
  /\ \A i \in 1..Len(payments) :
       payments'[i].status # payments[i].status =>
         /\ payments[i].status = "pending"
         /\ payments'[i].status \in {"completed", "expired"}
  /\ \A s \in 1..MaxSessions :
       /\ payCompleted'[s] <= 1
       /\ payCompleted'[s] >= payCompleted[s]

\* C5: a payment row's status only moves pending to completed or pending to
\* expired; completed and expired are terminal whatever events arrive later, and
\* a session id sees at most one pending to completed transition.
C5_PaymentStatusMonotone == [][C5Step]_vars

C5_Witness ==
  /\ \E i \in 1..Len(payments) : payments[i].status = "completed"
  /\ \E i \in 1..Len(payments) : payments[i].status = "expired"
  /\ lastDelivery.outcome \in {"already", "expired", "lost"}
  /\ ~lastDelivery.wrote

\* C6: the checkout-completed event of a session that was returned to the
\* payer and paid finds its payment row and leaves the registration(s) the
\* session pays for confirmed, whatever requests ran in between.
C6_NoPaymentLost ==
  lastDelivery.event.type = Completed =>
    /\ lastDelivery.outcome # "orphan"
    /\ \A r \in Covered(lastDelivery.event.session) :
         registrations[r].status = "confirmed"

C7Step ==
  \A c \in Callers :
    (cs'[c].prev # NoSession \/ (cs[c].prev # NoSession /\ lastCall'.prev # NoSession)) =>
      /\ payments' = payments
      /\ Len(sessions') = Len(sessions)
      /\ lastCall'.prev # NoSession =>
           /\ lastCall'.status = 200
           /\ lastCall'.sessionId = lastCall'.prev
           /\ sessions[lastCall'.prev].status = "open"

C8_ReturnedSessionChargesRecomputed ==
  lastCall.status = 200 =>
    /\ sessions[lastCall.sessionId].amount = lastCall.total
    /\ \A i \in 1..Len(payments) :
         payments[i].stripe_session_id = lastCall.sessionId =>
           payments[i].amount = lastCall.total

\* C9: a request for a still-pending registration whose earlier payment row an
\* expiry event moved to expired, owing a positive amount and running
\* undisturbed, succeeds with a newly created session tracked by a pending row.
C9_RetryAfterExpirySucceeds ==
  (lastCall.afterExpiry /\ lastCall.alone /\ lastCall.total > 0) =>
    /\ lastCall.status = 200
    /\ lastCall.created = lastCall.sessionId
    /\ \E i \in 1..Len(payments) :
         /\ payments[i].stripe_session_id = lastCall.sessionId
         /\ payments[i].status = "pending"

C10Step ==
  \A w \in Handlers :
    /\ (wh[w].pc = "idle" /\ wh'[w].pc = "expire") =>
         payments' = payments /\ registrations' = registrations
    /\ (wh[w].pc = "expire" /\ wh'[w].pc # "expire") =>
         LET s == wh[w].event.session
             changed == {i \in 1..Len(payments) : payments'[i] # payments[i]}
         IN /\ registrations' = registrations
            /\ Len(payments') = Len(payments)
            /\ Cardinality(changed) <= 1
            /\ \A i \in changed :
                 /\ payments[i].stripe_session_id = s
                 /\ payments[i].status = "pending"
                 /\ payments'[i] = [payments[i] EXCEPT !.status = "expired",
                                                      !.stripe_event_id = wh[w].event]
            /\ \A i \in 1..Len(payments) :
                 payments[i].status = "completed" => payments'[i] = payments[i]

\* C10: handling a checkout-expired event changes at most the one payment row
\* carrying that session id, and only when it is pending; registrations and
\* completed payments are left as they were.
C10_ExpiryFrame == [][C10Step]_vars

C10_Witness ==
  /\ lastDelivery.outcome = "expired"
  /\ lastDelivery.wrote
  /\ \E i \in 1..Len(payments) : payments[i].status = "completed"
  /\ \E r \in Regs : registrations[r].status = "confirmed"

C12Step ==
  /\ lastDelivery'.outcome \in {"unhandled", "orphan", "already"} =>
       /\ payments' = payments
       /\ registrations' = registrations
       /\ lastDelivery'.status = 200
       /\ ~lastDelivery'.duplicate
  /\ \A w \in Handlers :
       /\ (wh[w].pc = "idle" /\ wh'[w].pc # "idle") =>
            /\ wh'[w].event.type \in {Completed, Expired}
            /\ payments' = payments
            /\ registrations' = registrations
       /\ (wh[w].pc = "fetchPayment" /\ wh'[w].pc # "fetchPayment") =>
            LET rows == PaymentBySession(wh[w].event.session)
            IN (rows = {} \/ \E i \in rows : payments[i].status = "completed") =>
                 /\ wh'[w].pc = "idle"
                 /\ lastDelivery'.outcome = IF rows = {} THEN "orphan" ELSE "already"

\* C12: a delivery of an event of an unrecognised type, of a checkout-completed
\* event whose session id no payment row carries, or of a checkout-completed
\* event whose payment row is already completed writes no payment and no
\* registration row and is answered 200 received: true.
C12_NoOpDeliveries == [][C12Step]_vars

C12_Witness ==
  /\ lastDelivery.outcome = "already"
  /\ lastDelivery.status = 200
  /\ \E i \in PaymentBySession(lastDelivery.event.session) :
       payments[i].status = "completed"

C14Step ==
  /\ lastCall'.kind = "solo" =>
       /\ lastCall'.target \notin Regs => lastCall'.status = 404
       /\ (lastCall'.target \in Regs /\ lastCall'.total = 0) => lastCall'.status = 400
       /\ lastCall'.status \in {400, 404} =>
            /\ lastCall'.created = NoSession
            /\ payments' = payments
            /\ sessions' = sessions
  /\ \A c \in Callers :
       /\ (cs[c].pc = "idle" /\ cs'[c].pc # "idle" /\ cs'[c].kind = "solo") =>
            /\ cs'[c].target \in Regs
            /\ registrations[cs'[c].target].status # "confirmed"
            /\ payments' = payments
            /\ sessions' = sessions
       /\ (cs'[c].kind = "solo" /\ cs'[c].total = 0) => cs'[c].pc = "drift"

\* C14: a solo request answers 404 for an id no registration carries, 400 for a
\* confirmed registration and 400 when the recomputed amount is 0; none of
\* these requests creates a checkout session or writes a payment row.
C14_SoloRejections == [][C14Step]_vars

C14_Witness ==
  /\ lastCall.kind = "solo"
  /\ lastCall.status = 400
  /\ lastCall.target \in Regs
  /\ registrations[lastCall.target].status = "pending"
  /\ lastCall.total = 0

C17Step ==
  \A c \in Callers :
    LET g == IF lastCall'.kind = "group" THEN lastCall'.target ELSE cs'[c].target
        members == {r \in Regs : Attrs(r).group_id = g}
    IN (/\ cs[c].pc = "idle"
        /\ lastCall'.kind = "group" \/ (cs'[c].pc # "idle" /\ cs'[c].kind = "group")
        /\ \E r \in members : registrations[r].status = "confirmed"
        /\ \E r \in members : registrations[r].status = "pending")
       => lastCall'.status = 400

\* C17: a group request for a group with a confirmed member and a pending
\* member is rejected with 400 at once, before any session or payment row.
C17_GroupWithConfirmedMemberRejected == [][C17Step]_vars

Authorized(g) ==
  g.header /\ g.valid /\ (g.secret \/ (g.development /\ g.allow_insecure))

Rejections == {"nosignature", "invalid", "nosecret"}

C11Step ==
  /\ \A w \in Handlers : wh'[w].pc # "idle" => Authorized(wh'[w].gate)
  /\ lastDelivery' # NoDelivery =>
       LET g == lastDelivery'.gate
       IN /\ Authorized(g) <=> lastDelivery'.outcome \notin Rejections
          /\ ~Authorized(g) =>
               /\ payments' = payments
               /\ registrations' = registrations
               /\ lastDelivery'.status =
                    IF ~g.header THEN 400
                    ELSE IF ~g.secret /\ ~(g.development /\ g.allow_insecure) THEN 500
                    ELSE 400

\* C11: a delivery gets to the storage reads and writes only when it carries a
\* signature header and either verifies against the configured secret or meets
\* no secret with NODE_ENV development and ALLOW_INSECURE_WEBHOOKS true; a
\* request without the header is answered 400, one with the header that meets
\* no secret and lacks one of the two conditions 500, one that fails
\* verification 400, and none of these reads or changes a row.
C11_VerifiedBeforeStorage == [][C11Step]_vars

C11_Witness ==
  /\ lastDelivery.outcome = "nosecret"
  /\ lastDelivery.status = 500
  /\ lastDelivery.gate.header
  /\ lastDelivery.gate.allow_insecure
  /\ ~lastDelivery.gate.development
  /\ Len(payments) > 0

C13Step ==
  \A w \in Handlers :
    (wh[w].pc = "confirm" /\ wh'[w].pc = "idle") =>
      /\ lastDelivery'.status = 200
      /\ lastDelivery'.outcome = "confirmed"
      /\ payments' = payments
      /\ \A i \in PaymentBySession(wh[w].event.session) :
           payments'[i].status = "completed"
      /\ \A r \in Regs :
           registrations[r].status = "confirmed" => registrations'[r] = registrations[r]

C16Step ==
  \A c \in Callers :
    /\ (cs[c].pc = "save" /\ cs'[c].pc \in {"expire", "mark"}) =>
         (payments' = payments <=> cs'[c].pc = "expire")
    /\ (cs[c].pc = "expire" /\ cs'[c].pc = "idle") =>
         LET s == cs[c].session
         IN /\ lastCall'.status = 500
            /\ lastCall'.created = s
            /\ payments' = payments
            /\ PaymentBySession(s) = {}
            /\ lastCall'.fault # "expire" => sessions'[s].status = "expired"
            /\ \A k \in 1..Len(sessions) : k # s => sessions'[k] = sessions[k]

\* C16: when the payment row write fails after the checkout session was
\* created, the request asks the gateway to expire that session and answers
\* 500, also when the expiry request fails, and no payment row carries the new
\* session id.
C16_FailedSaveExpiresSession == [][C16Step]_vars

C16_Witness ==
  /\ lastCall.status = 500
  /\ lastCall.fault = "expire"
  /\ lastCall.created # NoSession
  /\ sessions[lastCall.created].status = "open"
  /\ PaymentBySession(lastCall.created) = {}

(* ------------------------------------------------------------------ *)
(*  Pricing engine                                                     *)
(* ------------------------------------------------------------------ *)
QuoteAge == computeAge(quote.input.dob_year, quote.input.dob_md, quote.event)

\* the registration date of the call lies inside a surcharge tier window
QuoteInTier == findSurchargeTier(quote.pricing.late_surcharge_tiers, quote.regDate) # 0

\* C18: a registrant whose age at the event start is at most the infant
\* threshold is priced 0 with code FREE_INFANT and surcharge 0, whatever the
\* full-duration flag, the motel flag, the day count and the registration date
C18_InfantIsFree ==
  (quote.done /\ QuoteAge <= quote.event.infant_age_threshold)
    => /\ quote.result.amount = 0
       /\ quote.result.surcharge = 0
       /\ quote.result.explanationCode = "FREE_INFANT"

\* an infant of exactly the threshold age, full duration, registering inside
\* a surcharge tier window
C18_Witness ==
  /\ quote.done
  /\ QuoteAge = quote.event.infant_age_threshold
  /\ quote.input.isFullDuration
  /\ QuoteInTier

C20_PartialMotelFree ==
  (/\ quote.done
   /\ QuoteAge > quote.event.infant_age_threshold
   /\ ~quote.input.isFullDuration
   /\ quote.input.isStayingInMotel
   /\ quote.pricing.motel_stay_free)
    => /\ quote.result.amount = 0
       /\ quote.result.surcharge = 0
       /\ quote.result.explanationCode = "PARTIAL_MOTEL_FREE"

\* such a registrant registering inside a surcharge tier window
C20_Witness ==
  /\ quote.done
  /\ QuoteAge > quote.event.infant_age_threshold
  /\ ~quote.input.isFullDuration
  /\ quote.input.isStayingInMotel
  /\ quote.pricing.motel_stay_free
  /\ QuoteInTier
  /\ quote.result.amount = 0

(* ------------------------------------------------------------------ *)
(*  Recomputation against the amount stored at creation                *)
(* ------------------------------------------------------------------ *)
\* C15: with the event and the pricing configuration unchanged since the
\* registration was created, the amount recomputed at session initiation
\* equals the amount stored at creation, however much time has passed
C15_RecomputedEqualsCreated ==
  \A c \in Callers :
    (cs[c].kind = "solo" /\ cs[c].items # << >>)
      => cs[c].items[1].amount
           = CreatedRegistration(cs[c].target, ConfigLate, 0).computed_amount

(* ------------------------------------------------------------------ *)
(*  Group aggregation                                                  *)
(* ------------------------------------------------------------------ *)
\* the base amount of member i of the call, priced alone
MemberBase(i) ==
  computePricing(quote.input[i], quote.event, quote.pricing, quote.regDate).baseAmount

RECURSIVE SumMemberBase(_)
SumMemberBase(n) == IF n = 0 THEN 0 ELSE MemberBase(n) + SumMemberBase(n - 1)

TierAmounts ==
  {quote.pricing.late_surcharge_tiers[t].amount :
     t \in 1..Len(quote.pricing.late_surcharge_tiers)}

\* C21: the subtotal of a group is the sum of the members' base amounts, each
\* item carries its base amount and no surcharge, the group surcharge is 0 or
\* the amount of one tier, and the grand total is subtotal plus that surcharge
C21_GroupSurchargeOnce ==
  quote.done
    => /\ Len(quote.result.items) = Len(quote.input)
       /\ \A i \in 1..Len(quote.input) :
            /\ quote.result.items[i].amount = MemberBase(i)
            /\ quote.result.items[i].surcharge = 0
       /\ quote.result.subtotal = SumMemberBase(Len(quote.input))
       /\ quote.result.surcharge \in {0} \cup TierAmounts
       /\ quote.result.grandTotal = quote.result.subtotal + quote.result.surcharge

\* two paying members inside a tier window: each alone would carry the
\* surcharge, the group carries it once
C21_Witness ==
  /\ quote.done
  /\ Len(quote.input) = 2
  /\ \A i \in 1..2 :
       computePricing(quote.input[i], quote.event, quote.pricing, quote.regDate).surcharge > 0
  /\ quote.result.surcharge > 0
  /\ quote.result.grandTotal = MemberBase(1) + MemberBase(2) + quote.result.surcharge

\* C22: when every member's base amount is 0 the group surcharge and the
\* grand total are 0, also for a date inside a surcharge tier window
C22_FreeGroupNoSurcharge ==
  (quote.done /\ \A i \in 1..Len(quote.input) : MemberBase(i) = 0)
    => /\ quote.result.surcharge = 0
       /\ quote.result.grandTotal = 0

\* an infant and a motel-free partial attendee quoted inside a tier window
C22_Witness ==
  /\ quote.done
  /\ QuoteInTier
  /\ \E i, j \in 1..Len(quote.input) :
       /\ quote.result.items[i].explanationCode = "FREE_INFANT"
       /\ quote.result.items[j].explanationCode = "PARTIAL_MOTEL_FREE"
  /\ \A i \in 1..Len(quote.input) : MemberBase(i) = 0
  /\ quote.result.grandTotal = 0

(* ------------------------------------------------------------------ *)
(*  Surcharge tier selection                                           *)
(* ------------------------------------------------------------------ *)
\* the calendar day an instant falls on (parseISO of a day is its first instant)
dayOf(t) == t \div 2

\* index of the first tier, in list order, whose days start_date..end_date
\* contain the day of the instant; 0 when there is none
RECURSIVE FirstTierByDay(_, _, _)
FirstTierByDay(tiers, t, i) ==
  IF i > Len(tiers) THEN 0
  ELSE IF tiers[i].start_date <= dayOf(t) /\ dayOf(t) <= tiers[i].end_date
       THEN i
       ELSE FirstTierByDay(tiers, t, i + 1)

\* C23: the surcharge of a priced registrant is the amount of the first tier
\* whose interval start_date..end_date contains the registration date, both
\* ends inclusive (any time of day on end_date included), and 0 when no tier
\* contains the date
C23_SurchargeOfFirstTierInclusive ==
  (quote.done /\ quote.result.baseAmount > 0)
    => LET tiers == quote.pricing.late_surcharge_tiers
           t == FirstTierByDay(tiers, quote.regDate, 1)
       IN quote.result.surcharge = IF t = 0 THEN 0 ELSE tiers[t].amount

(* ------------------------------------------------------------------ *)
(*  Rows as created                                                    *)
(* ------------------------------------------------------------------ *)
\* C24: every row is created confirmed with confirmed_at set exactly when its
\* computed_amount is 0, and pending with confirmed_at null otherwise, for a
\* solo submission and for every member of a group submission
C24_CreatedConfirmedIffFree ==
  created.done
    => \A i \in 1..Len(created.rows) :
         IF created.rows[i].computed_amount = 0
         THEN created.rows[i].status = "confirmed" /\ created.rows[i].confirmed_at # NoDate
         ELSE created.rows[i].status = "pending" /\ created.rows[i].confirmed_at = NoDate

(* ------------------------------------------------------------------ *)
(*  Session initiation against settled payment rows                    *)
(* ------------------------------------------------------------------ *)
C25Step ==
  \A c \in Callers :
    (cs[c].pc = "save" /\ cs'[c].pc # "save") =>
      \A i \in 1..Len(payments) :
        payments[i].status \in {"completed", "expired"} =>
          /\ payments'[i].stripe_session_id = payments[i].stripe_session_id
          /\ payments'[i].amount = payments[i].amount
          /\ payments'[i].idempotency_key = payments[i].idempotency_key

\* C25: session initiation never changes the stripe_session_id, amount or
\* idempotency_key of a payment row that is completed or expired at the time
\* of the write
C25_SettledRowsNotRewritten == [][C25Step]_vars

(* ------------------------------------------------------------------ *)
(*  What a 200 to a completion event leaves behind                     *)
(* ------------------------------------------------------------------ *)
\* C27: when a checkout-completed delivery whose payment row was pending on
\* arrival is answered 200, the payment is completed and the registrations it
\* covers are confirmed, also when a storage write of the handler fails
C27_AckedMeansSettled ==
  (/\ lastDelivery.status = 200
   /\ lastDelivery.event.type = Completed
   /\ lastDelivery.outcome \in {"confirmed", "updateError"})
    => /\ \A i \in PaymentBySession(lastDelivery.event.session) :
            payments[i].status = "completed"
       /\ \A r \in Covered(lastDelivery.event.session) :
            registrations[r].status = "confirmed"

(* ------------------------------------------------------------------ *)
(*  Concurrent session initiation                                      *)
(* ------------------------------------------------------------------ *)
\* the state InitCallers starts from, as a state of the full system
ExpiredUnpaid ==
  /\ Len(sessions) = 1 /\ sessions[1].status = "expired" /\ sessions[1].returned
  /\ sessions[1].registration_id = 1 /\ sessions[1].group_id = NoGroup
  /\ Len(payments) = 1 /\ payments[1].status = "pending"
  /\ payments[1].stripe_session_id = 1 /\ payments[1].idempotency_key = soloKey(1)
  /\ registrations[1].pending_payment_started
  /\ \A c \in Callers : cs[c].pc = "idle"
  /\ \A w \in Handlers : wh[w].pc = "idle"

\* C28: once every concurrent session-initiation call has returned, each
\* checkout session still open is referenced by a payment row and no
\* registration has more than one pending payment row
C28_OpenSessionsTracked ==
  (\A c \in Callers : cs[c].pc = "idle")
    => /\ \A s \in 1..Len(sessions) :
            sessions[s].status = "open"
              => \E i \in 1..Len(payments) : payments[i].stripe_session_id = s
       /\ \A r \in Regs :
            Cardinality({i \in 1..Len(payments) :
                           payments[i].registration_id = r
                           /\ payments[i].status = "pending"}) <= 1

(* ------------------------------------------------------------------ *)
(*  Drift correction against confirmed registrations                   *)
(* ------------------------------------------------------------------ *)
C29Step ==
  \A r \in Regs :
    registrations[r].status = "confirmed"
      => /\ registrations'[r].computed_amount = registrations[r].computed_amount
         /\ registrations'[r].explanation_code = registrations[r].explanation_code

\* C29: the computed_amount and explanation_code of a registration do not
\* change once its status is confirmed: no step of a session-initiation call
\* interleaved with the confirming webhook writes the drift correction to a
\* confirmed registration
C29_ConfirmedAmountFrozen == [][C29Step]_vars

\* C30: with no session-initiation call in flight, no registration created on
\* its own is pending with a computed_amount of 0
C30_NoPendingFree ==
  (\A c \in Callers : cs[c].pc = "idle")
    => \A r \in Regs :
         ~(registrations[r].status = "pending" /\ registrations[r].computed_amount = 0)

(* ------------------------------------------------------------------ *)
(*  Rate limiter                                                       *)
(* ------------------------------------------------------------------ *)
RECURSIVE PassedIn(_, _, _)
\* calls for the key let pass at the instants from..to
PassedIn(key, from, to) ==
  IF from > to \/ from > MaxClock THEN 0
  ELSE limiter.passed[key][from] + PassedIn(key, from + 1, to)

\* C26: for every key, in every time interval of length windowMs at most
\* `limit` calls of rateLimit return success
C26_SlidingWindow ==
  \A key \in RateKeys :
    \A from \in 0..MaxClock :
      PassedIn(key, from, from + RATE_WINDOW_MS - 1) <= RATE_LIMIT

====
